---- MODULE Spec2Model ----
(***************************************************************************)
(* A model of the BitField library (src/bitfield.c, src/bitfield.h).       *)
(*                                                                         *)
(* A uint32_t is modelled by the set of the positions (0 = least           *)
(* significant) of its 1 bits, so that every C bit operation is a set      *)
(* operation and the width of 32 bits is kept exactly: a left shift drops  *)
(* the positions that leave 0..31.  Bits(n) converts a number to this      *)
(* form.  The backing memory is the array of 32-bit slots instance->field  *)
(* points to; bytes are taken from the slots in little-endian order.       *)
(***************************************************************************)
EXTENDS Integers, FiniteSets, Sequences, TLC

\* ------------------------------------------------------------------ bounds
MaxBytes == 8
MaxWidth == 33
MaxBits == 100
RaceSlots == 2

\* --------------------------------------------------------------- constants
LONG_BIT == 32
CHAR_BIT == 8

VARIABLES
    area,       \* the caller's declaration of the region: its length in bytes
    field,      \* the memory instance->field points to, slot -> uint32_t
    size,       \* instance->size, the capacity in bits
    nSlots,     \* instance->nSlots
    pc,         \* "unsized" | "new" | "ready" | "done"
    last,       \* the operation that ran last, with its arguments
    pre,        \* the memory before that operation
    ret,        \* the value that operation returned (a uint32_t, a uint8_t or a float's bits)
    retptr,     \* what bitfield_dump returned: "none" | "dst" | "NULL"
    dst,        \* the destination buffer of bitfield_dump, byte -> uint8_t
    reads,      \* the slots the operation loaded
    writes,     \* the slots the operation stored
    req,        \* the bit count the caller sized the region for (-1: none)
    rpc,        \* race: caller -> position inside bitfield_write_uintn
    rarg,       \* race: caller -> the call's arguments
    rloc,       \* race: caller -> the call's locals
    busy        \* race: whether the two calls ever were in progress together

vars == <<area, field, size, nSlots, pc, last, pre, ret, retptr, dst, reads,
          writes, req, rpc, rarg, rloc, busy>>

\* ------------------------------------------------------------ uint32_t
Pos == 0 .. (LONG_BIT - 1)

Pow2[k \in 0 .. 30] == IF k = 0 THEN 1 ELSE 2 * Pow2[k - 1]

\* The uint32_t (below 2^31) with the value n.
Bits(n) == {k \in 0 .. 30 : (n \div Pow2[k]) % 2 = 1}

Zero == {}
One == {0}
AllOnes == Pos

\* a << k and a >> k for a shift count below the width
Shl(a, k) == {b + k : b \in {x \in a : x + k < LONG_BIT}}
Shr(a, k) == {b - k : b \in {x \in a : x >= k}}
\* a >> k for any count: a count of the width or more is undefined in C; the
\* builds either mask the count to five bits (x86) or shift everything out (ARM)
ShrAny(a, k) == IF k < LONG_BIT THEN {Shr(a, k)} ELSE {Shr(a, k % LONG_BIT), Zero}

BitAnd(a, b) == a \cap b
BitOr(a, b) == a \cup b
BitXor(a, b) == (a \ b) \cup (b \ a)
BitNot(a) == Pos \ a
\* the value passed on without the cast
U8_nocast(v) == v
\* (uint8_t)v
U8(v) == {b \in v : b < CHAR_BIT}

\* C's integer division, which truncates toward zero
CDiv(a, b) == IF a >= 0 THEN a \div b ELSE -((-a) \div b)

\* ------------------------------------------------------------ the memory
\* The slots of a region of n bytes, its trailing partial slot included.
SlotsOf(n) == (n + 3) \div 4

\* field[s].  No operation of the library, called with an index below the
\* capacity, leaves the slots of the region; the ELSE branches only keep the
\* operators total.
Load(f, s) == IF s \in DOMAIN f THEN f[s] ELSE Zero
Store(f, s, v) == IF s \in DOMAIN f THEN [f EXCEPT ![s] = v] ELSE f

\* Byte k of the memory (little-endian: byte k of a slot holds its bits 8k..8k+7).
ByteOf(f, k) ==
    LET sh == CHAR_BIT * (k % 4)
    IN  {b - sh : b \in {x \in Load(f, k \div 4) : x >= sh /\ x < sh + CHAR_BIT}}

\* ------------------------------------------------------------ the macros
BITMASK(b) == {b % LONG_BIT}
BITSLOT(b) == b \div LONG_BIT
BITGET(f, b) == BitAnd(Shr(Load(f, BITSLOT(b)), b % LONG_BIT), One)
BITSET(f, b) == Store(f, BITSLOT(b), BitOr(Load(f, BITSLOT(b)), BITMASK(b)))
\* the clear without the mask's complement
BITCLEAR_unmasked(f, b) == Store(f, BITSLOT(b), BitAnd(Load(f, BITSLOT(b)), BITMASK(b)))
BITCLEAR(f, b) == Store(f, BITSLOT(b), BitAnd(Load(f, BITSLOT(b)), BitNot(BITMASK(b))))
BITTOGGLE(f, b) == Store(f, BITSLOT(b), BitXor(Load(f, BITSLOT(b)), BITMASK(b)))
BITOFFSET(index) == index % LONG_BIT
\* the merge with its two words exchanged
BITMASKMERGE_swapped(a, b, abits) == BitXor(a, BitAnd(BitXor(a, b), abits))
BITMASKMERGE(a, b, abits) == BitXor(b, BitAnd(BitXor(a, b), abits))
\* the mask shifted by nbits instead of 32 - nbits
BITMASK32_high(nbits) == IF nbits # 0 THEN Shr(AllOnes, nbits) ELSE Zero
BITMASK32(nbits) == IF nbits # 0 THEN Shr(AllOnes, LONG_BIT - nbits) ELSE Zero
\* the sizing without the - 1
BITFIELD_SIZE_noround(NBITS) == 4 * (CDiv(NBITS, 32) + 1)
BITFIELD_SIZE(NBITS) == 4 * (CDiv(NBITS - 1, 32) + 1)

\* ------------------------------------------------------------ the functions
\* bitfield_setup: the instance's size and nSlots for a region of area_size bytes
setup_size(area_size) == area_size * CHAR_BIT
setup_nSlots(area_size) == area_size \div 4

bitfield_read_bit(f, index) == IF BITGET(f, index) # Zero THEN One ELSE Zero
bitfield_set_bit(f, index) == BITSET(f, index)
bitfield_clear_bit(f, index) == BITCLEAR(f, index)
bitfield_toggle_bit(f, index) == BITTOGGLE(f, index)
bitfield_write_bit(f, index, value) ==
    IF value # Zero THEN BITSET(f, index) ELSE BITCLEAR(f, index)

\* the fold decided with <= instead of <
ReadFolds_inclusive(sz, index) ==
    LET of == BITOFFSET(index)
        bits_taken == 32 - of
    IN  of # 0 /\ index + bits_taken <= sz

\* bitfield_read_uint32: whether the next slot is folded in
ReadFolds(sz, index) ==
    LET of == BITOFFSET(index)
        bits_taken == 32 - of
    IN  of # 0 /\ index + bits_taken < sz

bitfield_read_uint32(f, sz, index) ==
    LET slot == BITSLOT(index)
        of == BITOFFSET(index)
        result == Shr(Load(f, slot), of)
        bits_taken == 32 - of
    IN  IF ReadFolds(sz, index)
        THEN BitOr(result, Shl(Load(f, slot + 1), bits_taken))
        ELSE result

\* the slots bitfield_read_uint32 loads
ReadSlots32(sz, index) ==
    {BITSLOT(index)} \cup (IF ReadFolds(sz, index) THEN {BITSLOT(index) + 1} ELSE {})

\* bitfield_write_uint32: whether the next slot is written
WriteSpills(ns, index) == BITOFFSET(index) # 0 /\ BITSLOT(index) + 1 < ns

\* the write that does not keep the next slot's bits above the value
bitfield_write_uint32_clobber(f, ns, index, value) ==
    LET slot == BITSLOT(index)
        of == BITOFFSET(index)
        mask == BITMASK32(of)
        f1 == Store(f, slot, BitOr(Shl(value, of), BitAnd(Load(f, slot), mask)))
    IN  IF of = 0
        THEN Store(f, slot, value)
        ELSE IF WriteSpills(ns, index)
             THEN Store(f1, slot + 1, Shr(value, 32 - of))
             ELSE f1

bitfield_write_uint32(f, ns, index, value) ==
    LET slot == BITSLOT(index)
        of == BITOFFSET(index)
        mask == BITMASK32(of)
        f1 == Store(f, slot, BitOr(Shl(value, of), BitAnd(Load(f, slot), mask)))
    IN  IF of = 0
        THEN Store(f, slot, value)
        ELSE IF WriteSpills(ns, index)
             THEN Store(f1, slot + 1,
                        BitOr(Shr(value, 32 - of), BitAnd(Load(f1, slot + 1), BitNot(mask))))
             ELSE f1

\* the slots bitfield_write_uint32 stores, and those it loads
WriteSlots32(ns, index) ==
    {BITSLOT(index)} \cup (IF WriteSpills(ns, index) THEN {BITSLOT(index) + 1} ELSE {})
WriteLoads32(ns, index) == IF BITOFFSET(index) = 0 THEN {} ELSE WriteSlots32(ns, index)

\* bitfield_read_uintn: the values the call can return (one, unless the mask's
\* shift count is out of range)
bitfield_read_uintn(f, sz, index, xbits) ==
    IF xbits <= 32
    THEN IF xbits = 1 THEN {bitfield_read_bit(f, index)}
         ELSE IF xbits = 32 THEN {bitfield_read_uint32(f, sz, index)}
         ELSE {BitAnd(bitfield_read_uint32(f, sz, index), m) :
                   m \in ShrAny(AllOnes, 32 - xbits)}
    ELSE {Zero}

\* bitfield_write_uintn: the memories the call can leave
bitfield_write_uintn(f, sz, ns, index, value, xbits) ==
    IF xbits <= 32
    THEN IF xbits = 1 THEN {bitfield_write_bit(f, index, U8(value))}
         ELSE IF xbits = 32 THEN {bitfield_write_uint32(f, ns, index, value)}
         ELSE LET w == bitfield_read_uint32(f, sz, index)
                  mask == Shl(AllOnes, xbits)
              IN  {bitfield_write_uint32(f, ns, index, BITMASKMERGE(w, BitAnd(value, m), mask)) :
                       m \in ShrAny(AllOnes, 32 - xbits)}
    ELSE {f}

\* the slots bitfield_read_uintn and bitfield_write_uintn load and store
ReadUintnLoads(sz, index, xbits) ==
    IF xbits > 32 THEN {} ELSE IF xbits = 1 THEN {BITSLOT(index)} ELSE ReadSlots32(sz, index)
WriteUintnLoads(sz, ns, index, xbits) ==
    IF xbits > 32 THEN {}
    ELSE IF xbits = 1 THEN {BITSLOT(index)}
    ELSE IF xbits = 32 THEN WriteLoads32(ns, index)
    ELSE ReadSlots32(sz, index) \cup WriteLoads32(ns, index)
WriteUintnStores(ns, index, xbits) ==
    IF xbits > 32 THEN {} ELSE IF xbits = 1 THEN {BITSLOT(index)} ELSE WriteSlots32(ns, index)

\* bitfield_read_float and bitfield_write_float: a float is carried as its 32
\* bits, which memcpy moves unchanged
bitfield_read_float(f, sz, index) == bitfield_read_uint32(f, sz, index)
bitfield_write_float(f, ns, index, value) == bitfield_write_uint32(f, ns, index, value)

\* the bound checked with < instead of <=
dump_ok_strict(sz, n) == n < sz \div CHAR_BIT
\* bitfield_dump: whether n bytes are copied, and the destination afterwards
dump_ok(sz, n) == n <= sz \div CHAR_BIT
bitfield_dump(f, sz, d, n) ==
    IF dump_ok(sz, n)
    THEN [k \in DOMAIN d |-> IF k < n THEN ByteOf(f, k) ELSE d[k]]
    ELSE d

\* ------------------------------------------------------------ the inputs
\* 0x9E3779B9
Mixed == Bits(506952121) \cup {31}
\* what a slot of the caller's region holds before the library is used
InitWords == {Zero, AllOnes, Mixed}
\* the values written: a few numbers, and each cut to the field's width
ValueSet == {Zero, One, Bits(2), Bits(256), AllOnes, Mixed}
Values(xbits) == ValueSet \cup {BitAnd(v, {b \in Pos : b < xbits}) : v \in ValueSet}
\* the uint8_t values bitfield_write_bit is given
ByteSet == {Zero, One, Bits(2), Bits(255)}
\* what the destination of bitfield_dump holds before the call: 0x5A everywhere
Sentinel == Bits(90)

NoOp == [op |-> "none", index |-> 0, value |-> Zero, xbits |-> 0, n |-> 0]
NoRace == [p \in {} |-> 0]

\* ------------------------------------------------------------ the state machine
\* A caller's region of any length up to MaxBytes (the lengths of whole slots,
\* which the library documents, and the others) with any of the initial
\* contents, a destination buffer, and an instance not yet set up.
Region(n) ==
    /\ area = n
    /\ field \in [0 .. (SlotsOf(n) - 1) -> InitWords]

Init ==
    /\ \/ \E n \in {m \in 1 .. MaxBytes : m % 4 = 0} : Region(n)
       \/ \E n \in {m \in 0 .. MaxBytes : m = 0 \/ m % 4 # 0} : Region(n)
    /\ size = 0
    /\ nSlots = 0
    /\ pc = "new"
    /\ last = NoOp
    /\ pre = field
    /\ ret = Zero
    /\ retptr = "none"
    /\ dst = [k \in 0 .. MaxBytes |-> Sentinel]
    /\ reads = {}
    /\ writes = {}
    /\ req = -1
    /\ rpc = NoRace
    /\ rarg = NoRace
    /\ rloc = NoRace
    /\ busy = FALSE

\* bitfield_setup( &bf, area, sizeof(area) )
Setup ==
    /\ pc = "new"
    /\ size' = setup_size(area)
    /\ nSlots' = setup_nSlots(area)
    /\ pc' = "ready"
    /\ last' = [NoOp EXCEPT !.op = "setup"]
    /\ UNCHANGED <<area, field, pre, ret, retptr, dst, reads, writes, req, rpc, rarg, rloc, busy>>

\* One call of the library on the instance: what it is, what it leaves in the
\* memory, what it returns, and the slots it loads and stores.
Call(l, f2, r, rds, wrs) ==
    /\ pc' = "done"
    /\ last' = l
    /\ pre' = field
    /\ field' = f2
    /\ ret' = r
    /\ reads' = rds
    /\ writes' = wrs
    /\ UNCHANGED <<area, size, nSlots, retptr, dst, req, rpc, rarg, rloc, busy>>

ReadBit ==
    /\ pc = "ready"
    /\ \E index \in 0 .. (size - 1) :
        Call([NoOp EXCEPT !.op = "read_bit", !.index = index],
             field, bitfield_read_bit(field, index), {BITSLOT(index)}, {})

SetBit ==
    /\ pc = "ready"
    /\ \E index \in 0 .. (size - 1) :
        Call([NoOp EXCEPT !.op = "set_bit", !.index = index],
             bitfield_set_bit(field, index), Zero, {BITSLOT(index)}, {BITSLOT(index)})

ClearBit ==
    /\ pc = "ready"
    /\ \E index \in 0 .. (size - 1) :
        Call([NoOp EXCEPT !.op = "clear_bit", !.index = index],
             bitfield_clear_bit(field, index), Zero, {BITSLOT(index)}, {BITSLOT(index)})

ToggleBit ==
    /\ pc = "ready"
    /\ \E index \in 0 .. (size - 1) :
        Call([NoOp EXCEPT !.op = "toggle_bit", !.index = index],
             bitfield_toggle_bit(field, index), Zero, {BITSLOT(index)}, {BITSLOT(index)})

WriteBit ==
    /\ pc = "ready"
    /\ \E index \in 0 .. (size - 1), value \in ByteSet :
        Call([NoOp EXCEPT !.op = "write_bit", !.index = index, !.value = value],
             bitfield_write_bit(field, index, value), Zero,
             {BITSLOT(index)}, {BITSLOT(index)})

\* The indexes a field access is tried with: every index below the capacity,
\* and for a width the call refuses also the first index past it.
Indexes(xbits) == IF xbits <= 32 THEN 0 .. (size - 1) ELSE 0 .. size

ReadUintn ==
    /\ pc = "ready"
    /\ \E xbits \in 0 .. MaxWidth :
        \E index \in Indexes(xbits) :
            \E r \in bitfield_read_uintn(field, size, index, xbits) :
                Call([NoOp EXCEPT !.op = "read_uintn", !.index = index, !.xbits = xbits],
                     field, r, ReadUintnLoads(size, index, xbits), {})

WriteUintn ==
    /\ pc = "ready"
    /\ \E xbits \in 0 .. MaxWidth :
        \E index \in Indexes(xbits), value \in Values(xbits) :
            \E f2 \in bitfield_write_uintn(field, size, nSlots, index, value, xbits) :
                Call([NoOp EXCEPT !.op = "write_uintn", !.index = index,
                                  !.value = value, !.xbits = xbits],
                     f2, Zero, WriteUintnLoads(size, nSlots, index, xbits),
                     WriteUintnStores(nSlots, index, xbits))

ReadFloat ==
    /\ pc = "ready"
    /\ \E index \in 0 .. (size - 1) :
        Call([NoOp EXCEPT !.op = "read_float", !.index = index],
             field, bitfield_read_float(field, size, index), ReadSlots32(size, index), {})

WriteFloat ==
    /\ pc = "ready"
    /\ \E index \in 0 .. (size - 1), value \in ValueSet :
        Call([NoOp EXCEPT !.op = "write_float", !.index = index, !.value = value],
             bitfield_write_float(field, nSlots, index, value), Zero,
             WriteLoads32(nSlots, index), WriteSlots32(nSlots, index))

Dump ==
    /\ pc = "ready"
    /\ \E n \in 0 .. (MaxBytes + 1) :
        /\ pc' = "done"
        /\ last' = [NoOp EXCEPT !.op = "dump", !.n = n]
        /\ pre' = field
        /\ dst' = bitfield_dump(field, size, dst, n)
        /\ retptr' = IF dump_ok(size, n) THEN "dst" ELSE "NULL"
        /\ reads' = IF dump_ok(size, n) THEN {k \div 4 : k \in 0 .. (n - 1)} ELSE {}
        /\ writes' = {}
        /\ UNCHANGED <<area, field, size, nSlots, ret, req, rpc, rarg, rloc, busy>>

Next ==
    \/ Setup
    \/ ReadBit
    \/ SetBit
    \/ ClearBit
    \/ ToggleBit
    \/ WriteBit
    \/ ReadUintn
    \/ WriteUintn
    \/ ReadFloat
    \/ WriteFloat
    \/ Dump

Spec == Init /\ [][Next]_vars

\* ------------------------------------------------------------ sizing a region
\* The caller of the header's example: a bit count n, a zeroed array of
\* BITFIELD_SIZE(n) bytes, and bitfield_setup over it.
InitSize ==
    /\ req \in 0 .. MaxBits
    /\ area = 0
    /\ field = [s \in {} |-> Zero]
    /\ size = 0
    /\ nSlots = 0
    /\ pc = "unsized"
    /\ last = NoOp
    /\ pre = field
    /\ ret = Zero
    /\ retptr = "none"
    /\ dst = [k \in 0 .. MaxBytes |-> Sentinel]
    /\ reads = {}
    /\ writes = {}
    /\ rpc = NoRace
    /\ rarg = NoRace
    /\ rloc = NoRace
    /\ busy = FALSE

\* uint8_t bfarea[ BITFIELD_SIZE(n) ] = {0};
Allocate ==
    /\ pc = "unsized"
    /\ area' = BITFIELD_SIZE(req)
    /\ field' = [s \in 0 .. (SlotsOf(BITFIELD_SIZE(req)) - 1) |-> Zero]
    /\ pre' = field'
    /\ pc' = "new"
    /\ UNCHANGED <<size, nSlots, last, ret, retptr, dst, reads, writes, req, rpc, rarg, rloc, busy>>

NextSize == Allocate \/ Setup

SpecSize == InitSize /\ [][NextSize]_vars

\* ------------------------------------------------------------ two callers
\* Two unsynchronised callers, each inside one bitfield_write_uintn call of a
\* width in 2..31 on the same instance, interleaved at the single loads and
\* stores of a slot.
Callers == {"A", "B"}
Other(p) == IF p = "A" THEN "B" ELSE "A"
RaceWidths == {2, 4}
RaceOffsets == {0, 28, 30}
RaceWords == {Zero, AllOnes}
RaceArgs ==
    {a \in [index : 0 .. (LONG_BIT * RaceSlots - 1), value : RaceWords, xbits : RaceWidths] :
        /\ (a.index % LONG_BIT) \in RaceOffsets
        /\ a.index + a.xbits <= LONG_BIT * RaceSlots}

InitRace ==
    /\ area = 4 * RaceSlots
    /\ field \in [0 .. (RaceSlots - 1) -> RaceWords]
    /\ size = setup_size(area)
    /\ nSlots = setup_nSlots(area)
    /\ pc = "race"
    /\ last = NoOp
    /\ pre = field
    /\ ret = Zero
    /\ retptr = "none"
    /\ dst = [k \in 0 .. MaxBytes |-> Sentinel]
    /\ reads = {}
    /\ writes = {}
    /\ req = -1
    /\ rarg \in [Callers -> RaceArgs]
    /\ rpc = [p \in Callers |-> "start"]
    /\ rloc = [p \in Callers |-> [w |-> Zero, t |-> Zero]]
    /\ busy = FALSE

\* the merge mask one bit too short
write_uintn_merge_wide(w, value, xbits) ==
    BITMASKMERGE(w, BitAnd(value, Shr(AllOnes, 32 - xbits)), Shl(AllOnes, xbits + 1))

\* bitfield_write_uintn, widths 2..31: the word written back, from the word read
write_uintn_merge(w, value, xbits) ==
    BITMASKMERGE(w, BitAnd(value, Shr(AllOnes, 32 - xbits)), Shl(AllOnes, xbits))

Merged(p) == write_uintn_merge(rloc[p].w, rarg[p].value, rarg[p].xbits)
InCall(p) == rpc[p] \notin {"start", "done"}

\* One step of caller p: its next position, its locals and the memory.
Step(p, to, loc, f2) ==
    /\ rpc' = [rpc EXCEPT ![p] = to]
    /\ rloc' = [rloc EXCEPT ![p] = loc]
    /\ field' = f2
    /\ busy' = (busy \/ InCall(Other(p)))
    /\ UNCHANGED <<area, size, nSlots, pc, last, pre, ret, retptr, dst, reads, writes, req, rarg>>

\* bitfield_read_uint32: result = field[slot] >> of
ReadLoad0(p) ==
    /\ rpc[p] = "start"
    /\ LET i == rarg[p].index
       IN  Step(p, IF ReadFolds(size, i) THEN "r1" ELSE "w0",
                [rloc[p] EXCEPT !.w = Shr(Load(field, BITSLOT(i)), BITOFFSET(i))], field)

\* bitfield_read_uint32: result |= field[slot+1] << bits_taken
ReadLoad1(p) ==
    /\ rpc[p] = "r1"
    /\ LET i == rarg[p].index
       IN  Step(p, "w0",
                [rloc[p] EXCEPT !.w = BitOr(@, Shl(Load(field, BITSLOT(i) + 1),
                                                   32 - BITOFFSET(i)))], field)

\* bitfield_write_uint32, offset 0: field[slot] = value
WriteWhole(p) ==
    /\ rpc[p] = "w0"
    /\ BITOFFSET(rarg[p].index) = 0
    /\ Step(p, "done", rloc[p], Store(field, BITSLOT(rarg[p].index), Merged(p)))

\* bitfield_write_uint32: the load of field[slot] in its first assignment
WriteLoad0(p) ==
    /\ rpc[p] = "w0"
    /\ BITOFFSET(rarg[p].index) # 0
    /\ Step(p, "w0s", [rloc[p] EXCEPT !.t = Load(field, BITSLOT(rarg[p].index))], field)

\* bitfield_write_uint32: the store of that assignment
WriteStore0(p) ==
    /\ rpc[p] = "w0s"
    /\ LET i == rarg[p].index
           of == BITOFFSET(i)
       IN  Step(p, IF WriteSpills(nSlots, i) THEN "w1" ELSE "done", rloc[p],
                Store(field, BITSLOT(i),
                      BitOr(Shl(Merged(p), of), BitAnd(rloc[p].t, BITMASK32(of)))))

\* bitfield_write_uint32: the load of field[slot+1] in its second assignment
WriteLoad1(p) ==
    /\ rpc[p] = "w1"
    /\ Step(p, "w1s", [rloc[p] EXCEPT !.t = Load(field, BITSLOT(rarg[p].index) + 1)], field)

\* bitfield_write_uint32: the store of that assignment
WriteStore1(p) ==
    /\ rpc[p] = "w1s"
    /\ LET i == rarg[p].index
           of == BITOFFSET(i)
       IN  Step(p, "done", rloc[p],
                Store(field, BITSLOT(i) + 1,
                      BitOr(Shr(Merged(p), 32 - of),
                            BitAnd(rloc[p].t, BitNot(BITMASK32(of))))))

NextRace ==
    \E p \in Callers :
        \/ ReadLoad0(p)
        \/ ReadLoad1(p)
        \/ WriteWhole(p)
        \/ WriteLoad0(p)
        \/ WriteStore0(p)
        \/ WriteLoad1(p)
        \/ WriteStore1(p)

SpecRace == InitRace /\ [][NextRace]_vars

\* ------------------------------------------------------------ the claims
\* Bit i of the memory, counted across the slots from bit 0 of slot 0.
BitAt(f, i) == (i % LONG_BIT) \in Load(f, i \div LONG_BIT)
\* Every bit of the memory: the region, and what follows it in its last slot.
MemBits(f) == {i \in 0 .. (LONG_BIT * MaxBytes) : (i \div LONG_BIT) \in DOMAIN f}
\* The bits outside [lo, hi) are what they were before the call.
SameOutside(lo, hi) == \A i \in MemBits(pre) : (i < lo \/ i >= hi) => (BitAt(field, i) <=> BitAt(pre, i))
\* v mod 2^w
Low(v, w) == {b \in v : b < w}
Wrote == pc = "done" /\ last.op = "write_uintn"

\* C1: in a store whose byte length is a multiple of 4, after
\* bitfield_write_uintn(i, v, w) with w in 1..32, i + w <= capacity and
\* v < 2^w, bitfield_read_uintn(i, w) returns exactly v.
FieldRoundTrip ==
    (/\ Wrote
     /\ area % 4 = 0
     /\ last.xbits \in 1 .. 32
     /\ last.index + last.xbits <= size
     /\ Low(last.value, last.xbits) = last.value)
    => bitfield_read_uintn(field, size, last.index, last.xbits) = {last.value}

\* C1's case: the four-bit field at index 30, which straddles slots 0 and 1,
\* written 0xF over zeros and read back.
FieldRoundTripWitness ==
    /\ Wrote
    /\ area = 8
    /\ last.index = 30
    /\ last.xbits = 4
    /\ last.value = Bits(15)
    /\ pre[0] = Zero /\ pre[1] = Zero
    /\ field[0] = {30, 31} /\ field[1] = {0, 1}
    /\ bitfield_read_uintn(field, size, 30, 4) = {Bits(15)}

\* C2: in a store whose byte length is a multiple of 4, bitfield_write_uintn(i, v, w)
\* with w in 1..32, i + w <= capacity and any 32-bit v leaves every bit outside
\* [i, i+w) as it was, whatever the region held.
NeighbourPreservation ==
    (/\ Wrote
     /\ area % 4 = 0
     /\ last.xbits \in 1 .. 32
     /\ last.index + last.xbits <= size)
    => SameOutside(last.index, last.index + last.xbits)

\* C2's case: a five-bit field written with all 32 bits of the value set into a
\* region of zeros, across the slot boundary: only the five bits are set.
NeighbourPreservationWitness ==
    /\ Wrote
    /\ area = 8
    /\ last.index = 29
    /\ last.xbits = 5
    /\ last.value = AllOnes
    /\ pre[0] = Zero /\ pre[1] = Zero
    /\ field[0] = {29, 30, 31} /\ field[1] = {0, 1}

\* C3: for every index below the capacity, bitfield_read_bit returns 1 after
\* bitfield_set_bit, 0 after bitfield_clear_bit, the complement of the former
\* bit after bitfield_toggle_bit and (b != 0) after bitfield_write_bit(b); no
\* other bit changes, and bitfield_read_bit changes none.
SingleBitAccessors ==
    (pc = "done" /\ last.index < size) =>
        LET i == last.index
            now == bitfield_read_bit(field, i)
            was == bitfield_read_bit(pre, i)
        IN  /\ last.op = "set_bit" => now = One /\ SameOutside(i, i + 1)
            /\ last.op = "clear_bit" => now = Zero /\ SameOutside(i, i + 1)
            /\ last.op = "toggle_bit" =>
                   now = (IF was = One THEN Zero ELSE One) /\ SameOutside(i, i + 1)
            /\ last.op = "write_bit" =>
                   now = (IF last.value # Zero THEN One ELSE Zero) /\ SameOutside(i, i + 1)
            /\ last.op = "read_bit" =>
                   field = pre /\ ret = (IF BitAt(pre, i) THEN One ELSE Zero)

\* C3's case: bit 37 of a region of ones cleared by bitfield_write_bit(37, 0).
SingleBitAccessorsWitness ==
    /\ pc = "done"
    /\ last.op = "write_bit"
    /\ last.index = 37
    /\ last.value = Zero
    /\ pre[1] = AllOnes
    /\ field[1] = AllOnes \ {5}
    /\ field[0] = pre[0]

\* C4: for a width of 0 or above 32, bitfield_read_uintn returns 0 and
\* bitfield_write_uintn leaves the memory as it was.
InvalidWidthPolicy ==
    (pc = "done" /\ ~(last.xbits \in 1 .. 32)) =>
        /\ last.op = "read_uintn" => ret = Zero
        /\ last.op = "write_uintn" => field = pre

\* C5: bitfield_dump(dst, n) on a store over L bytes returns dst and copies the
\* first n bytes of the region when n <= L, and returns NULL and leaves dst
\* alone when n > L; the region and the instance are unchanged either way.
DumpBoundsCheck ==
    (pc = "done" /\ last.op = "dump") =>
        /\ last.n <= area =>
               /\ retptr = "dst"
               /\ \A k \in DOMAIN dst :
                      IF k < last.n
                      THEN \A j \in 0 .. (CHAR_BIT - 1) :
                               (j \in dst[k]) <=> BitAt(pre, CHAR_BIT * k + j)
                      ELSE dst[k] = Sentinel
        /\ last.n > area =>
               /\ retptr = "NULL"
               /\ \A k \in DOMAIN dst : dst[k] = Sentinel
        /\ field = pre
        /\ size = CHAR_BIT * area
        /\ nSlots = area \div 4

\* C5's case: the whole of an 8-byte region dumped, n = L.
DumpBoundsCheckWitness ==
    /\ pc = "done"
    /\ last.op = "dump"
    /\ area = 8
    /\ last.n = 8
    /\ retptr = "dst"
    /\ pre[0] = Mixed /\ pre[1] = AllOnes
    /\ dst[0] = Bits(185) /\ dst[3] = Bits(158) /\ dst[7] = Bits(255)
    /\ dst[8] = Sentinel

\* The calls that go through bitfield_read_uint32 or bitfield_write_uint32.
WordCall ==
    /\ pc = "done"
    /\ \/ last.op \in {"read_float", "write_float"}
       \/ last.op \in {"read_uintn", "write_uintn"} /\ last.xbits \in 1 .. 32

\* C7 as stated: for every byte length and every index whose slot is below
\* slotCount, the word read and the word write touch no slot at or above
\* slotCount.
NoSlotPastSlotCount ==
    (WordCall /\ BITSLOT(last.index) < nSlots) =>
        \A s \in reads \cup writes : s < nSlots

\* C7 as amended: the word write loads and stores no slot at or above
\* slotCount; the word read loads no slot that starts at or past the capacity,
\* and none at or above slotCount when the byte length is a multiple of 4.
SlotAccessBounds ==
    (WordCall /\ BITSLOT(last.index) < nSlots) =>
        /\ \A s \in writes : s < nSlots
        /\ \A s \in reads : LONG_BIT * s < size
        /\ (last.op = "write_float" \/ (last.op = "write_uintn" /\ last.xbits = 32)) =>
               \A s \in reads : s < nSlots
        /\ area % 4 = 0 => \A s \in reads : s < nSlots

\* C7's case: a 32-bit read at index 1 of a 5-byte store (one slot, 40 bits)
\* folds in slot 1, the trailing partial slot.
SlotAccessBoundsWitness ==
    /\ pc = "done"
    /\ last.op = "read_uintn"
    /\ last.xbits = 32
    /\ last.index = 1
    /\ area = 5
    /\ nSlots = 1
    /\ reads = {0, 1}
    /\ pre[0] = Zero /\ pre[1] = AllOnes
    /\ ret = {31}

\* C8: in a store whose byte length is a multiple of 4, a 32-bit write of v at
\* an index i of the last slot with k = i % 32 # 0 stores the low 32 - k bits
\* of v in [i, capacity), leaves every bit below i as it was, and a 32-bit
\* read at i then returns v mod 2^(32-k).
TruncationAtEnd ==
    (/\ Wrote
     /\ last.xbits = 32
     /\ area % 4 = 0
     /\ BITSLOT(last.index) = nSlots - 1
     /\ last.index % 32 # 0)
    => LET i == last.index
           k == i % 32
       IN  /\ \A j \in 0 .. (31 - k) : BitAt(field, i + j) <=> (j \in last.value)
           /\ SameOutside(i, size)
           /\ bitfield_read_uintn(field, size, i, 32) = {Low(last.value, 32 - k)}

\* C8's case: all ones written at bit 60 of an 8-byte region of zeros: the four
\* bits 60..63 are set and the read returns 0xF.
TruncationAtEndWitness ==
    /\ Wrote
    /\ last.xbits = 32
    /\ area = 8
    /\ last.index = 60
    /\ last.value = AllOnes
    /\ pre[0] = Zero /\ pre[1] = Zero
    /\ field[0] = Zero /\ field[1] = {28, 29, 30, 31}
    /\ bitfield_read_uintn(field, size, 60, 32) = {Bits(15)}

\* C10 as stated: for every width w in 1..32, every index i with
\* i + w <= capacity and every 32-bit v, bitfield_write_uintn(i, v, w) followed
\* by bitfield_read_uintn(i, w) returns v mod 2^w.
UniformValueMasking ==
    (/\ Wrote
     /\ last.xbits \in 1 .. 32
     /\ last.index + last.xbits <= size)
    => bitfield_read_uintn(field, size, last.index, last.xbits)
           = {Low(last.value, last.xbits)}

\* C10 as amended: for w in 2..32 and i + w <= 32 * slotCount the read returns
\* v mod 2^w; for w = 1 and i below the capacity it returns 1 when v mod 256 is
\* not 0 and 0 when it is.
ValueMasking ==
    Wrote =>
        /\ (last.xbits \in 2 .. 32 /\ last.index + last.xbits <= LONG_BIT * nSlots) =>
               bitfield_read_uintn(field, size, last.index, last.xbits)
                   = {Low(last.value, last.xbits)}
        /\ (last.xbits = 1 /\ last.index < size) =>
               bitfield_read_uintn(field, size, last.index, 1)
                   = {IF \E b \in last.value : b < 8 THEN One ELSE Zero}

\* C10's case: the value 2 written with width 1 sets the bit, and 256 clears it.
ValueMaskingWitness ==
    /\ Wrote
    /\ last.xbits = 1
    /\ area = 4
    /\ last.index = 7
    /\ \/ last.value = Bits(2) /\ pre[0] = Zero /\ field[0] = {7}
       \/ last.value = Bits(256) /\ pre[0] = AllOnes /\ field[0] = AllOnes \ {7}

\* ceil(n / 32)
Ceil32(n) == (n + 31) \div 32

\* C6 as stated: for every bit count n >= 0, a region of BITFIELD_SIZE(n) bytes
\* gives a capacity c with n <= c < n + 32, and BITFIELD_SIZE(n) = 4 * ceil(n / 32).
CapacityFormula ==
    (pc = "ready" /\ req >= 0) =>
        /\ req <= size
        /\ size < req + 32
        /\ area = 4 * Ceil32(req)

\* C6 as amended: the same for every bit count n >= 1; for n = 0 (an int)
\* BITFIELD_SIZE gives 4 bytes, a capacity of 32.
CapacityFormulaPositive ==
    /\ (pc = "ready" /\ req >= 1) =>
           /\ req <= size
           /\ size < req + 32
           /\ area = 4 * Ceil32(req)
    /\ (pc = "ready" /\ req = 0) => area = 4 /\ size = 32

\* C6's case: 33 bits need two slots, 64 bits of capacity.
CapacityFormulaWitness ==
    /\ pc = "ready"
    /\ req = 33
    /\ area = 8
    /\ size = 64
    /\ nSlots = 2

\* The field of caller p, as the memory holds it.
FieldOf(f, p) == {j \in 0 .. (rarg[p].xbits - 1) : BitAt(f, rarg[p].index + j)}
Span(p) == rarg[p].index .. (rarg[p].index + rarg[p].xbits - 1)
BothDone == pc = "race" /\ \A p \in Callers : rpc[p] = "done"
Holds(p) == FieldOf(field, p) = Low(rarg[p].value, rarg[p].xbits)

\* C9: what two unsynchronised bitfield_write_uintn calls (widths 2..31) leave
\* once both completed: every bit outside the two fields is as before, and when
\* the calls did not overlap in time and the fields are disjoint both fields
\* hold their written values.  The lost update itself is the reachable state
\* LostUpdateWitness: there the calls did overlap.
RaceOutcome ==
    BothDone =>
        /\ \A i \in MemBits(pre) :
               (i \notin Span("A") \cup Span("B")) => (BitAt(field, i) <=> BitAt(pre, i))
        /\ (~busy /\ Span("A") \cap Span("B") = {}) => Holds("A") /\ Holds("B")

\* C9's case: both calls completed, the two fields are disjoint and lie in the
\* same slot, B's field holds what B wrote and A's field, written with another
\* value, still holds its pre-write value.
LostUpdateWitness ==
    /\ BothDone
    /\ busy
    /\ Span("A") \cap Span("B") = {}
    /\ BITSLOT(rarg["A"].index) = BITSLOT(rarg["B"].index)
    /\ Holds("B")
    /\ FieldOf(pre, "B") # FieldOf(field, "B")
    /\ ~Holds("A")
    /\ FieldOf(field, "A") = FieldOf(pre, "A")

====
